---- MODULE Spec2Model ----
(***************************************************************************)
(* picocache: an HTTP caching proxy with single-flight download, retries,  *)
(* atomic materialisation through a '.tmp' file and size-bounded LRU       *)
(* eviction.  The model follows the request handler (ServeHTTP), the       *)
(* download coordinator (downloadFile) and the eviction pass               *)
(* (cleanupOldEntries) statement by statement: every access to shared      *)
(* state (the Index `entries`, the registry `downloading`, `totalSize`,    *)
(* `cleanupMutex`, the cache directory) is one step of its goroutine.      *)
(***************************************************************************)
EXTENDS Integers, Sequences, FiniteSets, TLC

\* -------------------------------------------------------------- bounds
NumTasks == 4      \* request goroutines (each serves one GET)
NumKeys  == 3      \* distinct request paths (cache keys)
MaxBody  == 2      \* largest origin body, in bytes
MaxPolls == 2      \* polls a waiter makes before its deadline passes
NumPasses == 2     \* cleanupOldEntries goroutines alive together
Concurrent == 2    \* GETs in flight together when evictions interleave
Sequential == 3    \* GETs sent one after the other
HttpClients == 2   \* requests of any method, path and headers, one at a time
Restarted == 2     \* GETs sent one after the other to a restarted cache
MaxTime == 2       \* latest modification time of a file found at start
MaxRangeLen == 5   \* characters of a Range header given to parseRange
MaxSize == 3       \* largest resource size given to parseRange
MaxSizeChars == 5  \* characters of a size string given to ParseSize

MaxBudget == 3 * MaxBody   \* largest configured maxCacheSize

\* ---------------------------------------------------- program constants
downloadRetries == 3
megabyte == 1024 * 1024
gigabyte == 1024 * megabyte

Tasks == 1..NumTasks
Keys  == 1..NumKeys

NoEntry == 0       \* entries.Load found nothing / nil *cacheEntry
NoFile  == 0       \* no directory entry / no open file

\* The inodes of the file system: at most two names for each key and one open
\* file for each goroutine refer to one at any time.
Inodes == 1..(2 * NumKeys + NumTasks)

VARIABLES
    maxCacheSize,   \* PicoCache.maxCacheSize (fixed at construction)
    bodyLen,        \* origin: the length of the body of each path
    sequential,     \* clients: whether each GET waits for the previous response
    faults,         \* environment: which of origin, disk, client may fail
    clients,        \* clients: the number of GETs they send
    paths,          \* clients: the number of distinct paths they ask for
    started,        \* whether NewCache has returned
    mtime,          \* cache directory at start: key -> modification time
    rebuilt,        \* cacheEntry.size of the entry rebuildCache made for a key
    passes,         \* the cleanupOldEntries goroutines, each with its position
    cleanupMutex,   \* PicoCache.cleanupMutex: whether it is locked
    call,           \* the function called on its own, with its arguments
    ret,            \* what that call returned
    entries,        \* PicoCache.entries: key -> id of its *cacheEntry, or NoEntry
    lastUsed,       \* cacheEntry.lastUsed of the entry created by each task
    totalSize,      \* PicoCache.totalSize
    downloading,    \* PicoCache.downloading: the keys registered in flight
    final,          \* cache directory: key -> inode under the final name
    tmp,            \* cache directory: key -> inode under the '.tmp' name
    inode,          \* inode -> bytes of the body it holds (-1: not allocated)
    req,            \* the request goroutines
    pending,        \* cleanup goroutines spawned and not yet started
    cl,             \* the cleanup goroutine holding cleanupMutex
    originReqs      \* origin: requests received for each path

vars == <<maxCacheSize, bodyLen, sequential, faults, clients, paths,
          started, mtime, rebuilt, passes, cleanupMutex, call, ret, entries,
          lastUsed,
          totalSize, downloading, final, tmp, inode, req, pending, cl,
          originReqs>>

\* What no step of a request or of a cleanup pass changes.  The modification
\* times of the files are read by rebuildCache only.
config == <<maxCacheSize, bodyLen, sequential, faults, clients, paths,
            started, mtime, rebuilt, passes, cleanupMutex, call, ret>>

\* ------------------------------------------------------------- helpers
\* The paths ServeHTTP answers 404 itself: "/" and "/favicon.ico".  The other
\* paths are numbered as the keys are.
RootPath    == -1
FaviconPath == -2
ReservedPaths == {RootPath, FaviconPath}

\* *http.Request: a header is a sequence of characters, empty when the
\* request carries none.  A GET with no header is the request of Lookup.
PlainGet == [method |-> "GET", path |-> 0, query |-> "", inm |-> <<>>,
             range |-> <<>>]

\* hdr: Content-Range (start, end, size) and Content-Length of a 206.
IdleReq == [pc |-> "idle", key |-> 0, attempts |-> 0, fetched |-> 0,
            copied |-> 0, fd |-> NoFile, entry |-> NoEntry, role |-> "",
            polls |-> 0, xcache |-> "", status |-> 0, body |-> -1, err |-> "",
            http |-> PlainGet, etag |-> <<>>, hdr |-> <<>>]

IdleCl == [pc |-> "idle", snap |-> <<>>, i |-> 0]

\* The cleanupOldEntries goroutines that may exist at a time.
Passes == 1..NumPasses

\* The entries: the one task t may create has id t, the one rebuildCache may
\* create for key k has id NumTasks + k.
Entries == 1..(NumTasks + NumKeys)

\* cacheEntry.size and cacheEntry.filename of entry e: resp.ContentLength and
\* cacheFile of the request that created it, or info.Size() and the path of
\* the file rebuildCache found.
EntrySize(e) ==
    IF e \in Tasks THEN bodyLen[req[e].key] ELSE rebuilt[e - NumTasks]
EntryKey(e) ==
    IF e \in Tasks THEN req[e].key ELSE e - NumTasks

\* The set of inodes that a directory entry or an open file still refers to.
Live(f, tm, rq) ==
    {f[k] : k \in Keys} \cup {tm[k] : k \in Keys} \cup {rq[t].fd : t \in Tasks}

\* Storage of an inode is released with its last link and descriptor.
Reclaim(ino, f, tm, rq) ==
    [i \in Inodes |-> IF i \in Live(f, tm, rq) THEN ino[i] ELSE -1]

\* The inode that os.Create allocates for a new file.
NewInode ==
    CHOOSE i \in Inodes :
        inode[i] = -1 /\ \A j \in Inodes : j < i => inode[j] # -1

Max(a, b) == IF a >= b THEN a ELSE b

\* The sum of the sizes of the entries in S.
SumSizes(S) ==
    LET acc[T \in SUBSET S] ==
            IF T = {} THEN 0
            ELSE LET e == CHOOSE x \in T : TRUE
                 IN EntrySize(e) + acc[T \ {e}]
    IN acc[S]

\* The bytes of the body of path k that one origin response may deliver: all
\* of them, or fewer when the origin or the connection fails.
Delivered(k) ==
    IF "origin" \in faults THEN 0..bodyLen[k] ELSE {bodyLen[k]}

\* The entries some goroutine or the Index still points to.
Referenced(ents, rq) ==
    ({ents[k] : k \in Keys} \cup {rq[t].entry : t \in Tasks}) \ {NoEntry}

\* The memory of an entry is released with the last pointer to it.
Collect(lu, ents, rq) ==
    [e \in Entries |-> IF e \in Referenced(ents, rq) THEN lu[e] ELSE 0]

\* time.Now(): later than every lastUsed recorded.  Only the order of the
\* lastUsed values is ever read (time.Time.Before in cleanupOldEntries).
Now == 1 + (CHOOSE m \in {lastUsed[e] : e \in Entries} :
                \A e \in Entries : lastUsed[e] <= m)

\* ---------------------------------------------------------------- Init
TypeConfig ==
    /\ maxCacheSize \in 0..MaxBudget
    /\ bodyLen \in [Keys -> 1..MaxBody]
    /\ sequential \in BOOLEAN
    /\ faults \in SUBSET {"origin", "disk", "client"}
    /\ clients \in Tasks
    /\ paths \in Keys

\* All paths have bodies of the same length s.
Uniform(s) == bodyLen = [k \in Keys |-> s]

\* NewCache over an empty cache directory.
InitCache ==
    /\ entries = [k \in Keys |-> NoEntry]
    /\ lastUsed = [e \in Entries |-> 0]
    /\ started = TRUE
    /\ mtime = [k \in Keys |-> 0]
    /\ rebuilt = [k \in Keys |-> -1]
    /\ totalSize = 0
    /\ downloading = {}
    /\ final = [k \in Keys |-> NoFile]
    /\ tmp = [k \in Keys |-> NoFile]
    /\ inode = [i \in Inodes |-> -1]
    /\ req = [t \in Tasks |-> IdleReq]
    /\ pending = 1
    /\ cl = IdleCl
    /\ passes = [g \in Passes |-> IdleCl]
    /\ cleanupMutex = FALSE
    /\ originReqs = [k \in Keys |-> 0]

\* The cache as constructed; no function is called on its own.
InitState ==
    /\ InitCache
    /\ call = <<>>
    /\ ret = <<>>

\* A cache that no request is sent to.
NoClients ==
    /\ maxCacheSize = 0
    /\ Uniform(1)
    /\ sequential = TRUE
    /\ faults = {}
    /\ clients = 1
    /\ paths = 1
    /\ InitCache

\* The workloads explored: concurrent GETs over one or two paths with an
\* origin that may fail; concurrent GETs of one path with every kind of
\* failure; GETs sent one after the other over up to three paths, for every
\* body length and budget.
Scenario ==
    \/ /\ ~sequential
       /\ clients = Concurrent
       /\ paths \in 1..2
       /\ maxCacheSize \in 1..2
       /\ Uniform(1)
       /\ faults \in {{}, {"origin"}}
    \/ /\ ~sequential
       /\ clients = Concurrent
       /\ paths = 1
       /\ maxCacheSize = 1
       /\ Uniform(1)
       /\ faults = {"origin", "disk", "client"}
    \/ /\ sequential
       /\ clients = Sequential
       /\ paths = NumKeys
       /\ \E s \in 1..MaxBody : Uniform(s)
       /\ faults = {}

Init == TypeConfig /\ Scenario /\ InitState

\* A burst of GETs for one never-cached path, with a budget that holds them.
InitBurst ==
    /\ TypeConfig
    /\ ~sequential
    /\ clients = NumTasks
    /\ paths = 1
    /\ maxCacheSize = MaxBudget
    /\ Uniform(1)
    /\ faults = {}
    /\ InitState

\* ------------------------------------------------- ServeHTTP, downloadFile
Goto(t, r) == req' = [req EXCEPT ![t] = r]

\* A GET for path k arrives and is given goroutine t (goroutines are numbered
\* in the order their requests arrive).  ServeHTTP up to and including
\* c.entries.Load(cacheFile): the header X-Cache is MISS unless the key is found.
Lookup(t, k) ==
    /\ started
    /\ req[t].pc = "idle"
    /\ t <= clients
    /\ k <= paths
    /\ \A u \in Tasks : u < t => req[u].pc # "idle"
    /\ sequential => \A u \in Tasks : req[u].pc \in {"idle", "done"}
    /\ IF entries[k] # NoEntry
       THEN Goto(t, [req[t] EXCEPT !.pc = "open", !.key = k, !.xcache = "HIT",
                                   !.entry = entries[k]])
       ELSE Goto(t, [req[t] EXCEPT !.pc = "register", !.key = k,
                                   !.xcache = "MISS"])
    /\ UNCHANGED <<config, entries, lastUsed, totalSize, downloading, final,
                   tmp, inode, pending, cl, originReqs>>

\* downloadFile: c.downloading.LoadOrStore(cacheFile, true).
Register(t) ==
    /\ req[t].pc = "register"
    /\ IF req[t].key \in downloading
       THEN /\ Goto(t, [req[t] EXCEPT !.pc = "wait", !.role = "waiter"])
            /\ UNCHANGED downloading
       ELSE /\ Goto(t, [req[t] EXCEPT !.pc = "get", !.role = "owner"])
            /\ downloading' = downloading \cup {req[t].key}
    /\ UNCHANGED <<config, entries, lastUsed, totalSize, final, tmp, inode,
                   pending, cl, originReqs>>

\* The waiter's loop as it would be without its deadline.
WaitPollNoDeadline(t) ==
    /\ req[t].pc = "wait"
    /\ IF entries[req[t].key] # NoEntry
       THEN Goto(t, [req[t] EXCEPT !.pc = "waitdel", !.polls = 0,
                                   !.entry = entries[req[t].key]])
       ELSE Goto(t, [req[t] EXCEPT !.polls = @ + 1])
    /\ UNCHANGED <<config, entries, lastUsed, totalSize, downloading, final,
                   tmp, inode, pending, cl, originReqs>>

\* The waiter's loop as it would be if a waiter that gives up unregistered
\* the key.
WaitPollGiveUp(t) ==
    /\ req[t].pc = "wait"
    /\ IF req[t].polls < MaxPolls
       THEN /\ IF entries[req[t].key] # NoEntry
               THEN Goto(t, [req[t] EXCEPT !.pc = "waitdel", !.polls = 0,
                                           !.entry = entries[req[t].key]])
               ELSE Goto(t, [req[t] EXCEPT !.polls = @ + 1])
            /\ UNCHANGED downloading
       ELSE /\ Goto(t, [req[t] EXCEPT !.pc = "done", !.err = "timeout",
                                      !.status = 500])
            /\ downloading' = downloading \ {req[t].key}
    /\ UNCHANGED <<config, entries, lastUsed, totalSize, final,
                   tmp, inode, pending, cl, originReqs>>

\* downloadFile, the waiter's loop: one test of the deadline and, before it,
\* one c.entries.Load and one sleep of downloadWaitInterval.
WaitPoll(t) ==
    /\ req[t].pc = "wait"
    /\ IF req[t].polls < MaxPolls
       THEN IF entries[req[t].key] # NoEntry
            THEN Goto(t, [req[t] EXCEPT !.pc = "waitdel", !.polls = 0,
                                        !.entry = entries[req[t].key]])
            ELSE Goto(t, [req[t] EXCEPT !.polls = @ + 1])
       ELSE Goto(t, [req[t] EXCEPT !.pc = "done", !.err = "timeout",
                                   !.status = 500])
    /\ UNCHANGED <<config, entries, lastUsed, totalSize, downloading, final,
                   tmp, inode, pending, cl, originReqs>>

\* downloadFile, the waiter that saw the entry: c.downloading.Delete, return.
WaitDelete(t) ==
    /\ req[t].pc = "waitdel"
    /\ downloading' = downloading \ {req[t].key}
    /\ Goto(t, [req[t] EXCEPT !.pc = "open"])
    /\ UNCHANGED <<config, entries, lastUsed, totalSize, final, tmp, inode,
                   pending, cl, originReqs>>

\* downloadFile, the owner's loop head: http.Get(url) and its status, or the
\* loop's end after downloadRetries failed attempts.
Fetch(t) ==
    /\ req[t].pc = "get"
    /\ IF req[t].attempts < downloadRetries
       THEN /\ originReqs' = [originReqs EXCEPT ![req[t].key] = @ + 1]
            /\ \/ Goto(t, [req[t] EXCEPT !.fetched = @ + 1, !.pc = "create"])
               \/ /\ "origin" \in faults
                  /\ Goto(t, [req[t] EXCEPT !.fetched = @ + 1,
                                            !.attempts = @ + 1])
       ELSE /\ Goto(t, [req[t] EXCEPT !.pc = "fail", !.err = "exhausted"])
            /\ UNCHANGED originReqs
    /\ UNCHANGED <<config, entries, lastUsed, totalSize, downloading, final,
                   tmp, inode, pending, cl>>

\* downloadFile: os.Create(cacheFile + ".tmp"): a new file, or the existing
\* one truncated; or an error of the file system.
CreateTmp(t) ==
    /\ req[t].pc = "create"
    /\ \/ LET k == req[t].key
              i == IF tmp[k] = NoFile THEN NewInode ELSE tmp[k]
          IN /\ tmp' = [tmp EXCEPT ![k] = i]
             /\ inode' = [inode EXCEPT ![i] = 0]
             /\ Goto(t, [req[t] EXCEPT !.pc = "copy", !.fd = i])
       \/ /\ "disk" \in faults
          /\ Goto(t, [req[t] EXCEPT !.pc = "fail", !.err = "create"])
          /\ UNCHANGED <<tmp, inode>>
    /\ UNCHANGED <<config, entries, lastUsed, totalSize, downloading, final,
                   pending, cl, originReqs>>

\* downloadFile: io.Copy(file, resp.Body) writes the n bytes the origin
\* delivers from offset 0 of the open file; file.Close().
Copy(t) ==
    /\ req[t].pc = "copy"
    /\ \E n \in Delivered(req[t].key) :
          /\ Goto(t, [req[t] EXCEPT !.pc = "verify", !.copied = n,
                                    !.fd = NoFile])
          /\ inode' = Reclaim([inode EXCEPT ![req[t].fd] = Max(@, n)],
                              final, tmp, req')
    /\ UNCHANGED <<config, entries, lastUsed, totalSize, downloading, final,
                   tmp, pending, cl, originReqs>>

\* The length check as it would be without os.Remove(tempFile) on a short
\* body.
VerifyKeepTmp(t) ==
    /\ req[t].pc = "verify"
    /\ LET k == req[t].key
       IN IF req[t].copied # bodyLen[k]
          THEN /\ Goto(t, [req[t] EXCEPT !.pc = "get", !.attempts = @ + 1,
                                         !.copied = 0])
               /\ UNCHANGED <<final, tmp, inode>>
          ELSE IF tmp[k] = NoFile
          THEN /\ Goto(t, [req[t] EXCEPT !.pc = "rmtmp", !.err = "rename",
                                         !.copied = 0])
               /\ UNCHANGED <<final, tmp, inode>>
          ELSE /\ final' = [final EXCEPT ![k] = tmp[k]]
               /\ tmp' = [tmp EXCEPT ![k] = NoFile]
               /\ Goto(t, [req[t] EXCEPT !.pc = "store", !.copied = 0])
               /\ inode' = Reclaim(inode, final', tmp', req')
    /\ UNCHANGED <<config, entries, lastUsed, totalSize, downloading,
                   pending, cl, originReqs>>

\* downloadFile: the length check; os.Remove(tempFile) and the next attempt,
\* or os.Rename(tempFile, cacheFile), which fails when tempFile is gone.
Verify(t) ==
    /\ req[t].pc = "verify"
    /\ LET k == req[t].key
       IN IF req[t].copied # bodyLen[k]
          THEN /\ tmp' = [tmp EXCEPT ![k] = NoFile]
               /\ Goto(t, [req[t] EXCEPT !.pc = "get", !.attempts = @ + 1,
                                         !.copied = 0])
               /\ inode' = Reclaim(inode, final, tmp', req')
               /\ UNCHANGED final
          ELSE IF tmp[k] = NoFile
          THEN /\ Goto(t, [req[t] EXCEPT !.pc = "rmtmp", !.err = "rename",
                                         !.copied = 0])
               /\ UNCHANGED <<final, tmp, inode>>
          ELSE /\ final' = [final EXCEPT ![k] = tmp[k]]
               /\ tmp' = [tmp EXCEPT ![k] = NoFile]
               /\ Goto(t, [req[t] EXCEPT !.pc = "store", !.copied = 0])
               /\ inode' = Reclaim(inode, final', tmp', req')
    /\ UNCHANGED <<config, entries, lastUsed, totalSize, downloading,
                   pending, cl, originReqs>>

\* downloadFile's error returns as they would be without the deferred
\* c.downloading.Delete.
FailKeepMarker(t) ==
    /\ req[t].pc \in {"rmtmp", "fail"}
    /\ IF req[t].pc = "rmtmp"
       THEN /\ tmp' = [tmp EXCEPT ![req[t].key] = NoFile]
            /\ Goto(t, [req[t] EXCEPT !.pc = "fail"])
            /\ inode' = Reclaim(inode, final, tmp', req')
       ELSE /\ Goto(t, [req[t] EXCEPT !.pc = "done", !.status = 500])
            /\ UNCHANGED <<tmp, inode>>
    /\ UNCHANGED <<config, entries, lastUsed, totalSize, downloading, final,
                   pending, cl, originReqs>>

\* downloadFile's error returns: os.Remove(tempFile) after a failed rename;
\* then the deferred c.downloading.Delete, and ServeHTTP answers 500.
Fail(t) ==
    /\ req[t].pc \in {"rmtmp", "fail"}
    /\ IF req[t].pc = "rmtmp"
       THEN /\ tmp' = [tmp EXCEPT ![req[t].key] = NoFile]
            /\ Goto(t, [req[t] EXCEPT !.pc = "fail"])
            /\ inode' = Reclaim(inode, final, tmp', req')
            /\ UNCHANGED downloading
       ELSE /\ downloading' = downloading \ {req[t].key}
            /\ Goto(t, [req[t] EXCEPT !.pc = "done", !.status = 500])
            /\ UNCHANGED <<tmp, inode>>
    /\ UNCHANGED <<config, entries, lastUsed, totalSize, final, pending, cl,
                   originReqs>>

\* downloadFile: c.entries.Store(cacheFile, entry) with lastUsed: time.Now().
Store(t) ==
    /\ req[t].pc = "store"
    /\ entries' = [entries EXCEPT ![req[t].key] = t]
    /\ Goto(t, [req[t] EXCEPT !.pc = "add", !.entry = t])
    /\ lastUsed' = Collect([lastUsed EXCEPT ![t] = Now], entries', req')
    /\ UNCHANGED <<config, totalSize, downloading, final, tmp, inode,
                   pending, cl, originReqs>>

\* downloadFile: c.totalSize.Add(resp.ContentLength); go c.cleanupOldEntries().
Add(t) ==
    /\ req[t].pc = "add"
    /\ totalSize' = totalSize + bodyLen[req[t].key]
    /\ pending' = pending + 1
    /\ Goto(t, [req[t] EXCEPT !.pc = "ret"])
    /\ UNCHANGED <<config, entries, lastUsed, downloading, final, tmp, inode,
                   cl, originReqs>>

\* downloadFile: return entry, nil, and the deferred c.downloading.Delete.
Return(t) ==
    /\ req[t].pc = "ret"
    /\ downloading' = downloading \ {req[t].key}
    /\ Goto(t, [req[t] EXCEPT !.pc = "open"])
    /\ UNCHANGED <<config, entries, lastUsed, totalSize, final, tmp, inode,
                   pending, cl, originReqs>>

\* The open as it would be if a failure made the handler drop the entry
\* from the Index.
OpenOrForget(t) ==
    /\ req[t].pc = "open"
    /\ LET f == final[EntryKey(req[t].entry)]
       IN IF f = NoFile
          THEN /\ Goto(t, [req[t] EXCEPT !.pc = "done", !.err = "open",
                                         !.status = 500, !.entry = NoEntry])
               /\ entries' = [entries EXCEPT ![req[t].key] = NoEntry]
          ELSE /\ Goto(t, [req[t] EXCEPT !.pc = "stream", !.fd = f])
               /\ UNCHANGED entries
    /\ lastUsed' = Collect(lastUsed, entries', req')
    /\ UNCHANGED <<config, totalSize, downloading, final,
                   tmp, inode, pending, cl, originReqs>>

\* ServeHTTP: os.Open(entry.filename).
Open(t) ==
    /\ req[t].pc = "open"
    /\ LET f == final[EntryKey(req[t].entry)]
       IN IF f = NoFile
          THEN Goto(t, [req[t] EXCEPT !.pc = "done", !.err = "open",
                                      !.status = 500, !.entry = NoEntry])
          ELSE Goto(t, [req[t] EXCEPT !.pc = "stream", !.fd = f])
    /\ lastUsed' = Collect(lastUsed, entries, req')
    /\ UNCHANGED <<config, entries, totalSize, downloading, final,
                   tmp, inode, pending, cl, originReqs>>

\* ServeHTTP: io.Copy(&writerClientError{w}, fileReader): the whole file is
\* sent; or the client disconnects (EPIPE, ECONNRESET) and the handler goes
\* on; or another error ends the handler.
Stream(t) ==
    /\ req[t].pc = "stream"
    /\ req[t].http.range = <<>>
    /\ \/ /\ Goto(t, [req[t] EXCEPT !.pc = "touch", !.status = 200,
                                    !.body = inode[req[t].fd]])
          /\ UNCHANGED inode
       \/ /\ "client" \in faults
          /\ Goto(t, [req[t] EXCEPT !.pc = "touch", !.status = 200,
                                    !.err = "disconnect"])
          /\ UNCHANGED inode
       \/ /\ "client" \in faults
          /\ Goto(t, [req[t] EXCEPT !.pc = "done", !.status = 200,
                                    !.err = "stream", !.fd = NoFile,
                                    !.entry = NoEntry])
          /\ inode' = Reclaim(inode, final, tmp, req')
    /\ lastUsed' = Collect(lastUsed, entries, req')
    /\ UNCHANGED <<config, entries, totalSize, downloading, final,
                   tmp, pending, cl, originReqs>>

\* ServeHTTP: now := time.Now(); entry.lastUsed = now; the deferred
\* file.Close().
Touch(t) ==
    /\ req[t].pc = "touch"
    /\ Goto(t, [req[t] EXCEPT !.pc = "done", !.fd = NoFile,
                              !.entry = NoEntry])
    /\ lastUsed' = Collect([lastUsed EXCEPT ![req[t].entry] = Now],
                           entries, req')
    /\ inode' = Reclaim(inode, final, tmp, req')
    /\ UNCHANGED <<config, entries, totalSize, downloading, final, tmp,
                   pending, cl, originReqs>>

\* ------------------------------------------------------------ parseRange
Digits == <<"0", "1", "2", "3", "4", "5", "6", "7", "8", "9">>

IsDigit(c) == \E i \in DOMAIN Digits : Digits[i] = c

DigitVal(c) == (CHOOSE i \in DOMAIN Digits : Digits[i] = c) - 1

\* The number a non-empty sequence of decimal digits denotes.
Decimal(d) ==
    LET val[i \in 0..Len(d)] ==
            IF i = 0 THEN 0 ELSE 10 * val[i - 1] + DigitVal(d[i])
    IN val[Len(d)]

\* strconv.ParseInt(d, 10, 64): an optional sign and one or more digits.
ParseInt(d) ==
    LET signed == d # <<>> /\ d[1] \in {"+", "-"}
        digs   == IF signed THEN Tail(d) ELSE d
    IN IF digs = <<>> \/ \E i \in DOMAIN digs : ~IsDigit(digs[i])
       THEN [err |-> TRUE, val |-> 0]
       ELSE [err |-> FALSE,
             val |-> IF d[1] = "-" THEN 0 - Decimal(digs) ELSE Decimal(digs)]

\* strings.Cut(s, sep): s around the first sep.
Cut(s, sep) ==
    IF \E i \in DOMAIN s : s[i] = sep
    THEN LET i == CHOOSE j \in DOMAIN s :
                      s[j] = sep /\ \A h \in 1..(j - 1) : s[h] # sep
         IN [found |-> TRUE, before |-> SubSeq(s, 1, i - 1),
             after |-> SubSeq(s, i + 1, Len(s))]
    ELSE [found |-> FALSE, before |-> s, after |-> <<>>]

RangeError == [err |-> TRUE, start |-> 0, end |-> 0]

\* The end of parseRange without bringing the end back to the last byte.
ClampRangeStartOnly(start, end, size) ==
    IF start >= size THEN RangeError
    ELSE [err |-> FALSE, start |-> start, end |-> end]

\* The end of parseRange: start at or beyond the size is an error and the end
\* is brought back to the last byte.
ClampRange(start, end, size) ==
    IF start >= size THEN RangeError
    ELSE [err |-> FALSE, start |-> start,
          end |-> IF end >= size THEN size - 1 ELSE end]

\* parseRange from a first-byte position on: i is the parsed start, j the
\* parsed end, after the text of the end.
RangeFrom(i, after, j, size) ==
    IF i.err \/ i.val < 0
    THEN RangeError
    ELSE IF after = <<>>
    THEN ClampRange(i.val, size - 1, size)
    ELSE IF j.err \/ i.val > j.val
    THEN RangeError
    ELSE ClampRange(i.val, j.val, size)

\* parseRange of a suffix length: i is the parsed length.
RangeSuffix(i, size) ==
    IF i.err
    THEN RangeError
    ELSE ClampRange(size - (IF i.val > size THEN size ELSE i.val),
                    size - 1, size)

\* parseRange after strings.Cut(ra, "-") gave c.
RangeOfCut(c, size) ==
    IF ~c.found
    THEN RangeError
    ELSE IF c.before = <<>>
    THEN RangeSuffix(ParseInt(c.after), size)
    ELSE RangeFrom(ParseInt(c.before), c.after, ParseInt(c.after), size)

\* parseRange(s, size).  The unit prefix "bytes=" is one character of s.
parseRange(s, size) ==
    IF s = <<>> \/ s[1] # "bytes="
    THEN RangeError
    ELSE RangeOfCut(Cut(Tail(s), "-"), size)

\* The characters Range headers are made of: the unit prefixes, the hyphen,
\* the comma and some digits.
RangeChars == {"bytes=", "items=", "-", ",", "0", "1", "3"}

\* The sequences of at most n elements of S.
SeqUpTo(S, n) == UNION {[1..m -> S] : m \in 0..n}

\* parseRange is given any header of at most MaxRangeLen characters and any
\* size up to MaxSize.
InitRange ==
    /\ NoClients
    /\ call \in [fn : {"parseRange"}, s : SeqUpTo(RangeChars, MaxRangeLen),
                  size : 0..MaxSize]
    /\ ret = <<>>

\* ServeHTTP: parseRange(rangeHeader, entry.size) and the status that follows
\* from it: 416 when it fails, 206 otherwise.
CallParseRange ==
    /\ call.fn = "parseRange"
    /\ ret = <<>>
    /\ LET r == parseRange(call.s, call.size)
       IN ret' = [range |-> r, status |-> IF r.err THEN 416 ELSE 206]
    /\ UNCHANGED <<maxCacheSize, bodyLen, sequential, faults, clients, paths,
                   started, mtime, rebuilt, passes, cleanupMutex, call, entries, lastUsed, totalSize, downloading, final,
                   tmp, inode, req, pending, cl, originReqs>>

SpecRange == InitRange /\ [][CallParseRange]_vars

\* ------------------------------------------------------------- ParseSize
\* The characters size strings are made of.
SizeChars == {" ", "-", "0", "1", "m", "G", "b", "B", "t", "n", "a"}

\* unicode.ToUpper on these characters.
UpperOf(c) ==
    CASE c = "m" -> "M"
      [] c = "b" -> "B"
      [] c = "t" -> "T"
      [] c = "n" -> "N"
      [] c = "a" -> "A"
      [] OTHER -> c

\* strings.ToUpper(s).
ToUpper(s) == [i \in DOMAIN s |-> UpperOf(s[i])]

\* strings.TrimSpace(s).
TrimSpace(s) ==
    LET ink == {i \in DOMAIN s : s[i] # " "}
    IN IF ink = {} THEN <<>>
       ELSE SubSeq(s, CHOOSE i \in ink : \A j \in ink : i <= j,
                      CHOOSE i \in ink : \A j \in ink : j <= i)

\* strings.HasSuffix(s, suffix).
HasSuffix(s, suffix) ==
    /\ Len(s) >= Len(suffix)
    /\ SubSeq(s, Len(s) - Len(suffix) + 1, Len(s)) = suffix

\* strconv.ParseFloat(d, 64) on these characters: "NaN" in any case and
\* without a sign is the float NaN; an optional sign followed by digits is
\* that number, -0 included; anything else is an error.
ParseFloat(d) ==
    LET signed == d # <<>> /\ d[1] \in {"+", "-"}
        digs   == IF signed THEN Tail(d) ELSE d
    IN IF ToUpper(d) = <<"N", "A", "N">>
       THEN [err |-> FALSE, nan |-> TRUE, neg |-> FALSE, val |-> 0]
       ELSE IF digs = <<>> \/ \E i \in DOMAIN digs : ~IsDigit(digs[i])
       THEN [err |-> TRUE, nan |-> FALSE, neg |-> FALSE, val |-> 0]
       ELSE [err |-> FALSE, nan |-> FALSE, neg |-> d[1] = "-",
             val |-> Decimal(digs)]

\* What int64(f) may be for a float f that no int64 represents: the value
\* depends on the implementation.
AnyInt64 == {-1, 0, 1}

SizeError == [value |-> 0, multiplier |-> 1, err |-> TRUE]

\* ParseSize after the unit was cut off: the value of numStr times the
\* multiplier.  The returned int64 is value * multiplier; the two factors are
\* kept apart.  The comparison value < 0 is false for -0 and for NaN.
SizeOf(f, multiplier) ==
    IF f.err \/ (~f.nan /\ f.neg /\ f.val > 0)
    THEN {SizeError}
    ELSE IF f.nan
    THEN {[value |-> v, multiplier |-> 1, err |-> FALSE] : v \in AnyInt64}
    ELSE {[value |-> f.val, multiplier |-> multiplier, err |-> FALSE]}

\* ParseSize after strings.ToUpper(strings.TrimSpace(s)) gave u.
SizeOfUpper(u) ==
    IF u = <<>>
    THEN {SizeError}
    ELSE IF HasSuffix(u, <<"G", "B">>)
    THEN SizeOf(ParseFloat(TrimSpace(SubSeq(u, 1, Len(u) - 2))), gigabyte)
    ELSE IF HasSuffix(u, <<"M", "B">>)
    THEN SizeOf(ParseFloat(TrimSpace(SubSeq(u, 1, Len(u) - 2))), megabyte)
    ELSE {SizeError}

\* ParseSize(s): the results it may return.
ParseSize(s) == SizeOfUpper(ToUpper(TrimSpace(s)))

\* ParseSize is given any string of at most MaxSizeChars characters.
InitSize ==
    /\ NoClients
    /\ call \in [fn : {"ParseSize"}, s : SeqUpTo(SizeChars, MaxSizeChars)]
    /\ ret = <<>>

CallParseSize ==
    /\ call.fn = "ParseSize"
    /\ ret = <<>>
    /\ ret' \in ParseSize(call.s)
    /\ UNCHANGED <<maxCacheSize, bodyLen, sequential, faults, clients, paths,
                   started, mtime, rebuilt, passes, cleanupMutex, call, entries, lastUsed,
                   totalSize, downloading, final, tmp, inode, req, pending,
                   cl, originReqs>>

SpecSize == InitSize /\ [][CallParseSize]_vars

\* ------------------------------------- ServeHTTP: the head of the handler
\* A file name computed from the path and the query string.
getCacheFilenameQuery(r) ==
    IF r.query = "" THEN r.path ELSE (r.path % NumKeys) + 1

\* getCacheFilename(r): the SHA-256 of r.URL.Path, in base 32, under the cache
\* directory.  Distinct paths are taken to have distinct digests, so the
\* file name stands for the path it was computed from.
getCacheFilename(r) == r.path

\* filepath.Base(cacheFile): the digest, in the upper-case base 32 alphabet.
\* A header value is the digest it spells and the case of its letters.
ETag(cacheFile) == <<cacheFile, "upper">>

\* Equal letter for letter.
EqualExact(a, b) == a = b

\* strings.EqualFold(a, b): equal but for the case of the letters.
EqualFold(a, b) == a[1] = b[1]

\* The early answers with the If-None-Match comparison first.
EarlyMatchFirst(r) ==
    IF r.inm # <<>> /\ EqualFold(r.inm, ETag(getCacheFilename(r)))
    THEN 304
    ELSE IF r.method # "GET" THEN 405
    ELSE IF r.path \in ReservedPaths THEN 404
    ELSE 0

\* What ServeHTTP answers before it reads the Index: 405 to a method other
\* than GET, then 404 to a reserved path, then 304 to an If-None-Match equal
\* to the ETag; 0 when it goes on.
Early(r) ==
    IF r.method # "GET" THEN 405
    ELSE IF r.path \in ReservedPaths THEN 404
    ELSE IF r.inm # <<>> /\ EqualFold(r.inm, ETag(getCacheFilename(r)))
    THEN 304
    ELSE 0

\* Request r arrives and is given goroutine t.  ServeHTTP up to and including
\* c.entries.Load(cacheFile).
Request(t, r) ==
    /\ started
    /\ req[t].pc = "idle"
    /\ t <= clients
    /\ \A u \in Tasks : u < t => req[u].pc # "idle"
    /\ sequential => \A u \in Tasks : req[u].pc \in {"idle", "done"}
    /\ LET q == [req[t] EXCEPT !.http = r]
           cacheFile == getCacheFilename(r)
       IN IF Early(r) \in {405, 404}
          THEN Goto(t, [q EXCEPT !.pc = "done", !.status = Early(r)])
          ELSE IF Early(r) = 304
          THEN Goto(t, [q EXCEPT !.pc = "done", !.status = 304,
                                 !.key = cacheFile, !.etag = ETag(cacheFile)])
          ELSE IF entries[cacheFile] # NoEntry
          THEN Goto(t, [q EXCEPT !.pc = "open", !.key = cacheFile,
                                 !.etag = ETag(cacheFile), !.xcache = "HIT",
                                 !.entry = entries[cacheFile]])
          ELSE Goto(t, [q EXCEPT !.pc = "register", !.key = cacheFile,
                                 !.etag = ETag(cacheFile), !.xcache = "MISS"])
    /\ UNCHANGED <<config, entries, lastUsed, totalSize, downloading, final,
                   tmp, inode, pending, cl, originReqs>>

\* ServeHTTP with a Range header: parseRange over entry.size; 416 when it
\* fails; else file.Seek, Content-Range, Content-Length, 206 and io.Copy of
\* an io.LimitReader over the file, which ends with the file if that comes
\* first.  The client may go away as in Stream.
Ranged(t) ==
    /\ req[t].pc = "stream"
    /\ req[t].http.range # <<>>
    /\ \E r \in {parseRange(req[t].http.range, EntrySize(req[t].entry))} :
          LET n    == r.end - r.start + 1
              left == Max(0, inode[req[t].fd] - r.start)
              q    == [req[t] EXCEPT !.status = 206,
                                     !.hdr = <<r.start, r.end,
                                               EntrySize(req[t].entry), n>>]
          IN IF r.err
             THEN /\ Goto(t, [req[t] EXCEPT !.pc = "done", !.status = 416,
                                            !.fd = NoFile, !.entry = NoEntry])
                  /\ inode' = Reclaim(inode, final, tmp, req')
             ELSE \/ /\ Goto(t, [q EXCEPT !.pc = "touch",
                                          !.body = IF left < n THEN left
                                                   ELSE n])
                     /\ UNCHANGED inode
                  \/ /\ "client" \in faults
                     /\ Goto(t, [q EXCEPT !.pc = "touch",
                                          !.err = "disconnect"])
                     /\ UNCHANGED inode
                  \/ /\ "client" \in faults
                     /\ Goto(t, [q EXCEPT !.pc = "done", !.err = "stream",
                                          !.fd = NoFile, !.entry = NoEntry])
                     /\ inode' = Reclaim(inode, final, tmp, req')
    /\ lastUsed' = Collect(lastUsed, entries, req')
    /\ UNCHANGED <<config, entries, totalSize, downloading, final,
                   tmp, pending, cl, originReqs>>

\* ------------------------------------------------------ cleanupOldEntries
\* The keys the Index holds, as the ids of their entries.
Indexed == {entries[k] : k \in Keys} \ {NoEntry}

\* All orders of the finite set S.
Orders(S) ==
    {s \in [1..Cardinality(S) -> S] : \A i, j \in DOMAIN s : i # j => s[i] # s[j]}

\* slices.SortFunc with the comparison a.entry.lastUsed.Before(b.entry.lastUsed):
\* ascending lastUsed; the order of entries with equal lastUsed is whatever the
\* map iteration and the unstable sort make it.
SortedEntries(S) ==
    {s \in Orders(S) :
        \A i, j \in DOMAIN s : i < j => ~(lastUsed[s[j]] < lastUsed[s[i]])}

\* A spawned cleanup goroutine starts: c.cleanupMutex.TryLock(); it returns at
\* once when another pass holds the mutex.
CleanupStart ==
    /\ pending > 0
    /\ pending' = pending - 1
    /\ IF cl.pc = "idle"
       THEN cl' = [cl EXCEPT !.pc = "check"]
       ELSE UNCHANGED cl
    /\ UNCHANGED <<config, entries, lastUsed, totalSize, downloading, final,
                   tmp, inode, req, originReqs>>

\* if c.totalSize.Load() < c.maxCacheSize { return }
CleanupCheck ==
    /\ cl.pc = "check"
    /\ IF totalSize < maxCacheSize
       THEN cl' = [cl EXCEPT !.pc = "unlock"]
       ELSE cl' = [cl EXCEPT !.pc = "range"]
    /\ UNCHANGED <<config, entries, lastUsed, totalSize, downloading, final,
                   tmp, inode, req, pending, originReqs>>

\* c.entries.Range collects the entries; slices.SortFunc sorts them.
CleanupSnapshot ==
    /\ cl.pc = "range"
    /\ \E s \in SortedEntries(Indexed) :
          cl' = IF s = <<>> THEN [cl EXCEPT !.pc = "unlock"]
                ELSE [pc |-> "remove", snap |-> s, i |-> 1]
    /\ UNCHANGED <<config, entries, lastUsed, totalSize, downloading, final,
                   tmp, inode, req, pending, originReqs>>

\* The removal as it would be if the pass gave up when os.Remove fails
\* because the file is not there.
CleanupRemoveOrGiveUp ==
    /\ cl.pc = "remove"
    /\ IF final[EntryKey(cl.snap[cl.i])] = NoFile
       THEN cl' = [cl EXCEPT !.pc = "unlock"]
       ELSE cl' = [cl EXCEPT !.pc = "delete"]
    /\ final' = [final EXCEPT ![EntryKey(cl.snap[cl.i])] = NoFile]
    /\ inode' = Reclaim(inode, final', tmp, req)
    /\ UNCHANGED <<config, entries, lastUsed, totalSize, downloading, tmp,
                   req, pending, originReqs>>

\* os.Remove(e.entry.filename); a missing file is not an error here.
CleanupRemove ==
    /\ cl.pc = "remove"
    /\ final' = [final EXCEPT ![EntryKey(cl.snap[cl.i])] = NoFile]
    /\ inode' = Reclaim(inode, final', tmp, req)
    /\ cl' = [cl EXCEPT !.pc = "delete"]
    /\ UNCHANGED <<config, entries, lastUsed, totalSize, downloading, tmp,
                   req, pending, originReqs>>

\* c.entries.Delete(e.filename)
CleanupDelete ==
    /\ cl.pc = "delete"
    /\ entries' = [entries EXCEPT ![EntryKey(cl.snap[cl.i])] = NoEntry]
    /\ cl' = [cl EXCEPT !.pc = "sub"]
    /\ lastUsed' = Collect(lastUsed, entries', req)
    /\ UNCHANGED <<config, totalSize, downloading, final, tmp,
                   inode, req, pending, originReqs>>

\* The loop as it would be without the break: the size is subtracted and the
\* pass goes on to the next entry of the snapshot.
CleanupSubNoBreak ==
    /\ cl.pc = "sub"
    /\ totalSize' = totalSize - EntrySize(cl.snap[cl.i])
    /\ IF cl.i = Len(cl.snap)
       THEN cl' = [cl EXCEPT !.pc = "unlock"]
       ELSE cl' = [cl EXCEPT !.pc = "remove", !.i = @ + 1]
    /\ UNCHANGED <<config, entries, lastUsed, downloading, final, tmp, inode,
                   req, pending, originReqs>>

\* if c.totalSize.Add(-e.entry.size) <= c.maxCacheSize { break }
CleanupSub ==
    /\ cl.pc = "sub"
    /\ totalSize' = totalSize - EntrySize(cl.snap[cl.i])
    /\ IF totalSize' <= maxCacheSize \/ cl.i = Len(cl.snap)
       THEN cl' = [cl EXCEPT !.pc = "unlock"]
       ELSE cl' = [cl EXCEPT !.pc = "remove", !.i = @ + 1]
    /\ UNCHANGED <<config, entries, lastUsed, downloading, final, tmp, inode,
                   req, pending, originReqs>>

\* The deferred c.cleanupMutex.Unlock().
CleanupUnlock ==
    /\ cl.pc = "unlock"
    /\ cl' = IdleCl
    /\ UNCHANGED <<config, entries, lastUsed, totalSize, downloading, final,
                   tmp, inode, req, pending, originReqs>>

\* ---------------------------------------------------------- specification
Serve ==
    \E t \in Tasks :
        \/ \E k \in Keys : Lookup(t, k)
        \/ Register(t)
        \/ WaitPoll(t)
        \/ WaitDelete(t)
        \/ Fetch(t)
        \/ CreateTmp(t)
        \/ Copy(t)
        \/ Verify(t)
        \/ Fail(t)
        \/ Store(t)
        \/ Add(t)
        \/ Return(t)
        \/ Open(t)
        \/ Stream(t)
        \/ Touch(t)

Cleanup ==
    \/ CleanupStart
    \/ CleanupCheck
    \/ CleanupSnapshot
    \/ CleanupRemove
    \/ CleanupDelete
    \/ CleanupSub
    \/ CleanupUnlock

Next == Serve \/ Cleanup

Spec == Init /\ [][Next]_vars

\* The burst up to the moment the first spawned cleanup goroutine is scheduled.
SpecBurst == InitBurst /\ [][Serve]_vars

\* The paths clients ask for when n of them name files.
HttpPaths(n) == ReservedPaths \cup (1..n)

\* The If-None-Match headers sent with a request for path p: none, the
\* digest of p in upper or in lower case, the digest of no path (0).
Tags(p) == {<<>>, <<0, "upper">>, <<p, "upper">>, <<p, "lower">>}

\* The Range headers sent with them: none, from the first byte on, from the
\* second byte on.
SomeRanges == {<<>>, <<"bytes=", "0", "-">>, <<"bytes=", "1", "-">>}

\* Every method, path, query string and If-None-Match; a Range header on
\* the GETs for files, the only requests that get as far as reading it.
AllRequests(n) ==
    UNION {[method : {"GET", "POST"}, path : {p}, query : {"", "v=2"},
            inm : Tags(p),
            range : IF p \in ReservedPaths THEN {<<>>} ELSE SomeRanges]
           : p \in HttpPaths(n)}
    \ [method : {"POST"}, path : 1..n, query : {"", "v=2"},
       inm : UNION {Tags(p) : p \in 1..n}, range : SomeRanges \ {<<>>}]

\* Requests of every shape for one one-byte file and the reserved paths, sent
\* one after the other to a cache of one byte.
InitHTTP ==
    /\ TypeConfig
    /\ sequential
    /\ clients = HttpClients
    /\ paths = 1
    /\ maxCacheSize = 1
    /\ Uniform(1)
    /\ faults = {}
    /\ InitState

ServeRequests ==
    \E t \in Tasks :
        \/ \E r \in AllRequests(paths) : Request(t, r)
        \/ Register(t)
        \/ Fetch(t)
        \/ CreateTmp(t)
        \/ Copy(t)
        \/ Verify(t)
        \/ Store(t)
        \/ Add(t)
        \/ Return(t)
        \/ Open(t)
        \/ Stream(t)
        \/ Ranged(t)
        \/ Touch(t)

NextHTTP == ServeRequests \/ Cleanup

SpecHTTP == InitHTTP /\ [][NextHTTP]_vars

\* ------------------------------------------- a waiter and a slow owner
WaitClients == 3    \* the owner, the waiter and one request more

\* Concurrent GETs for one never-cached path, a sound origin and a budget
\* that holds the body.
InitWait ==
    /\ TypeConfig
    /\ ~sequential
    /\ clients = WaitClients
    /\ paths = 1
    /\ maxCacheSize = MaxBudget
    /\ Uniform(1)
    /\ faults = {}
    /\ InitState

\* The steps of goroutine t once its request has arrived.  No fetch fails
\* here, so downloadFile has no error return but the waiter's.
Step(t) ==
    \/ Register(t)
    \/ WaitPoll(t)
    \/ WaitDelete(t)
    \/ Fetch(t)
    \/ CreateTmp(t)
    \/ Copy(t)
    \/ Verify(t)
    \/ Store(t)
    \/ Add(t)
    \/ Return(t)
    \/ Open(t)
    \/ Stream(t)
    \/ Touch(t)

NextWait == \E t \in Tasks : (\E k \in Keys : Lookup(t, k)) \/ Step(t)

\* Every goroutine that can take a step eventually takes one (the Go
\* scheduler is fair, and time passes for a waiter that sleeps); whether a
\* client sends its request is up to the client.
SpecWait ==
    /\ InitWait
    /\ [][NextWait]_vars
    /\ \A t \in Tasks : WF_vars(Step(t))

\* ----------------------------------- cleanupOldEntries, every goroutine
\* What is left unchanged by a step of a cleanupOldEntries goroutine that
\* is not its own position or the mutex.
fixed == <<maxCacheSize, bodyLen, sequential, faults, clients, paths,
           started, mtime, rebuilt, call, ret, cl, originReqs, req,
           downloading, tmp>>

\* A goroutine that enters the pass whether or not the mutex is held.
TryLockAlways(g) ==
    /\ pending > 0
    /\ passes[g].pc = "idle"
    /\ pending' = pending - 1
    /\ cleanupMutex' = TRUE
    /\ passes' = [passes EXCEPT ![g].pc = "check"]
    /\ UNCHANGED <<fixed, entries, lastUsed, totalSize, final, inode>>

\* A spawned goroutine starts: if !c.cleanupMutex.TryLock() { return }.
TryLock(g) ==
    /\ pending > 0
    /\ passes[g].pc = "idle"
    /\ pending' = pending - 1
    /\ IF cleanupMutex
       THEN UNCHANGED <<cleanupMutex, passes>>
       ELSE /\ cleanupMutex' = TRUE
            /\ passes' = [passes EXCEPT ![g].pc = "check"]
    /\ UNCHANGED <<fixed, entries, lastUsed, totalSize, final, inode>>

\* if c.totalSize.Load() < c.maxCacheSize { return }
PassCheck(g) ==
    /\ passes[g].pc = "check"
    /\ passes' = [passes EXCEPT ![g].pc = IF totalSize < maxCacheSize
                                         THEN "unlock" ELSE "range"]
    /\ UNCHANGED <<fixed, cleanupMutex, pending, entries, lastUsed,
                   totalSize, final, inode>>

\* c.entries.Range and slices.SortFunc.
PassSnapshot(g) ==
    /\ passes[g].pc = "range"
    /\ \E s \in SortedEntries(Indexed) :
          passes' = [passes EXCEPT ![g] =
                        IF s = <<>> THEN [@ EXCEPT !.pc = "unlock"]
                        ELSE [pc |-> "remove", snap |-> s, i |-> 1]]
    /\ UNCHANGED <<fixed, cleanupMutex, pending, entries, lastUsed,
                   totalSize, final, inode>>

\* os.Remove(e.entry.filename)
PassRemove(g) ==
    /\ passes[g].pc = "remove"
    /\ final' = [final EXCEPT
                    ![EntryKey(passes[g].snap[passes[g].i])] = NoFile]
    /\ inode' = Reclaim(inode, final', tmp, req)
    /\ passes' = [passes EXCEPT ![g].pc = "delete"]
    /\ UNCHANGED <<fixed, cleanupMutex, pending, entries, lastUsed,
                   totalSize>>

\* c.entries.Delete(e.filename)
PassDelete(g) ==
    /\ passes[g].pc = "delete"
    /\ entries' = [entries EXCEPT
                      ![EntryKey(passes[g].snap[passes[g].i])] = NoEntry]
    /\ lastUsed' = Collect(lastUsed, entries', req)
    /\ passes' = [passes EXCEPT ![g].pc = "sub"]
    /\ UNCHANGED <<fixed, cleanupMutex, pending, totalSize, final, inode>>

\* if c.totalSize.Add(-e.entry.size) <= c.maxCacheSize { break }
PassSub(g) ==
    /\ passes[g].pc = "sub"
    /\ totalSize' = totalSize - EntrySize(passes[g].snap[passes[g].i])
    /\ IF totalSize' <= maxCacheSize \/ passes[g].i = Len(passes[g].snap)
       THEN passes' = [passes EXCEPT ![g].pc = "unlock"]
       ELSE passes' = [passes EXCEPT ![g].pc = "remove", ![g].i = @ + 1]
    /\ UNCHANGED <<fixed, cleanupMutex, pending, entries, lastUsed, final,
                   inode>>

\* The deferred c.cleanupMutex.Unlock(); the goroutine ends.
PassUnlock(g) ==
    /\ passes[g].pc = "unlock"
    /\ passes' = [passes EXCEPT ![g] = IdleCl]
    /\ cleanupMutex' = FALSE
    /\ UNCHANGED <<fixed, pending, entries, lastUsed, totalSize, final,
                   inode>>

\* Concurrent GETs over two paths with a sound origin and a budget that
\* holds at most one body, so that inserts trigger passes while a pass runs.
InitPasses ==
    /\ TypeConfig
    /\ ~sequential
    /\ clients = Concurrent
    /\ paths = 2
    /\ maxCacheSize \in 0..1
    /\ Uniform(1)
    /\ faults = {}
    /\ InitState

GoPasses ==
    \E g \in Passes :
        \/ TryLock(g)
        \/ PassCheck(g)
        \/ PassSnapshot(g)
        \/ PassRemove(g)
        \/ PassDelete(g)
        \/ PassSub(g)
        \/ PassUnlock(g)

NextPasses == NextWait \/ GoPasses

SpecPasses == InitPasses /\ [][NextPasses]_vars

\* ------------------------------------ files that vanish from the directory
\* Between two requests somebody removes every file of the cache directory.
Vanish ==
    /\ \A t \in Tasks : req[t].pc \in {"idle", "done"}
    /\ \E k \in Keys : final[k] # NoFile
    /\ final' = [k \in Keys |-> NoFile]
    /\ tmp' = [k \in Keys |-> NoFile]
    /\ inode' = Reclaim(inode, final', tmp', req)
    /\ UNCHANGED <<config, entries, lastUsed, totalSize, downloading, req,
                   pending, cl, originReqs>>

\* GETs sent one after the other, each for a path not asked for before; the
\* bodies have MaxBody bytes and the budget holds more than one body.
InitMissing ==
    /\ TypeConfig
    /\ sequential = TRUE
    /\ clients = Sequential
    /\ paths = NumKeys
    /\ Uniform(MaxBody)
    /\ maxCacheSize > MaxBody
    /\ faults = {}
    /\ InitState

ServeFresh ==
    \E t \in Tasks :
        \/ Lookup(t, t)
        \/ Register(t)
        \/ Fetch(t)
        \/ CreateTmp(t)
        \/ Copy(t)
        \/ Verify(t)
        \/ Store(t)
        \/ Add(t)
        \/ Return(t)
        \/ Open(t)
        \/ Stream(t)
        \/ Touch(t)

NextMissing == ServeFresh \/ Vanish \/ Cleanup

SpecMissing == InitMissing /\ [][NextMissing]_vars

\* ------------------------------------- lastUsed, a plain field of the entry
\* The requests about to run entry.lastUsed = now on entry e.
Writers(e) == {t \in Tasks : req[t].pc = "touch" /\ req[t].entry = e}

\* The pass is between c.entries.Range and the end of slices.SortFunc, where
\* it reads the lastUsed of every entry it collected; e is one of them.
Sorting(e) == cl.pc = "range" /\ e \in Indexed

\* ServeHTTP: entry.lastUsed = now, a plain store to a field of three words
\* that no lock guards.  When another request stores to the same field at
\* the same time the field may end up with any mix of the two values.
TouchRacy(t) ==
    /\ req[t].pc = "touch"
    /\ Goto(t, [req[t] EXCEPT !.pc = "done", !.fd = NoFile,
                              !.entry = NoEntry])
    /\ \E v \in 0..Now :
          /\ Cardinality(Writers(req[t].entry)) = 1 => v = Now
          /\ lastUsed' = Collect([lastUsed EXCEPT ![req[t].entry] = v],
                                 entries, req')
    /\ inode' = Reclaim(inode, final, tmp, req')
    /\ UNCHANGED <<config, entries, totalSize, downloading, final, tmp,
                   pending, cl, originReqs>>

\* c.entries.Range and slices.SortFunc, which reads lastUsed with plain
\* loads: while a request stores to the lastUsed of a collected entry the
\* comparisons need not agree with each other, and the entries may come out
\* in any order.
SnapshotRacy ==
    /\ cl.pc = "range"
    /\ \E s \in IF \E e \in Indexed : Writers(e) # {}
                 THEN Orders(Indexed) ELSE SortedEntries(Indexed) :
          cl' = IF s = <<>> THEN [cl EXCEPT !.pc = "unlock"]
                ELSE [pc |-> "remove", snap |-> s, i |-> 1]
    /\ UNCHANGED <<config, entries, lastUsed, totalSize, downloading, final,
                   tmp, inode, req, pending, originReqs>>

\* Concurrent GETs over two paths of one byte and a budget of one byte, with
\* a sound origin: requests hit an entry together and while a pass runs.
InitRace ==
    /\ TypeConfig
    /\ ~sequential
    /\ clients = Concurrent
    /\ paths = 2
    /\ maxCacheSize = 1
    /\ Uniform(1)
    /\ faults = {}
    /\ InitState

ServeRacy ==
    \E t \in Tasks :
        \/ \E k \in Keys : Lookup(t, k)
        \/ Register(t)
        \/ WaitPoll(t)
        \/ WaitDelete(t)
        \/ Fetch(t)
        \/ CreateTmp(t)
        \/ Copy(t)
        \/ Verify(t)
        \/ Store(t)
        \/ Add(t)
        \/ Return(t)
        \/ Open(t)
        \/ Stream(t)
        \/ TouchRacy(t)

CleanupRacy ==
    \/ CleanupStart
    \/ CleanupCheck
    \/ SnapshotRacy
    \/ CleanupRemove
    \/ CleanupDelete
    \/ CleanupSub
    \/ CleanupUnlock

NextRace == ServeRacy \/ CleanupRacy

SpecRace == InitRace /\ [][NextRace]_vars

\* ------------------------------------------------- NewCache, rebuildCache
\* The bytes of the files under the final names of the keys in K, added up
\* one file after the other as the walk does.
SumFiles(K) ==
    LET acc[T \in SUBSET K] ==
            IF T = {} THEN 0
            ELSE LET k == CHOOSE x \in T : TRUE
                 IN inode[final[k]] + acc[T \ {k}]
    IN acc[K]

\* The keys that have a file under their final name.
Files == {k \in Keys : final[k] # NoFile}

\* A walk that leaves the '.tmp' files where they are.
RebuildKeepTmp ==
    /\ ~started
    /\ started' = TRUE
    /\ entries' = [k \in Keys |-> IF k \in Files THEN NumTasks + k
                                  ELSE NoEntry]
    /\ rebuilt' = [k \in Keys |-> IF k \in Files THEN inode[final[k]] ELSE -1]
    /\ lastUsed' = [e \in Entries |->
                       IF e > NumTasks /\ (e - NumTasks) \in Files
                       THEN mtime[e - NumTasks] ELSE 0]
    /\ totalSize' = SumFiles(Files)
    /\ pending' = pending + 1
    /\ UNCHANGED <<maxCacheSize, bodyLen, sequential, faults, clients, paths,
                   mtime, passes, cleanupMutex, call, ret, downloading, final, tmp, inode, req, cl,
                   originReqs>>

\* NewCache over an existing directory: rebuildCache sets totalSize to 0 and
\* walks the directory, removing every file whose name ends in '.tmp' and
\* storing for every other file an entry with its length and modification
\* time, whose length it adds to totalSize; then it spawns a cleanup pass.
\* The server starts to listen after NewCache has returned.
Rebuild ==
    /\ ~started
    /\ started' = TRUE
    /\ tmp' = [k \in Keys |-> NoFile]
    /\ inode' = Reclaim(inode, final, tmp', req)
    /\ entries' = [k \in Keys |-> IF k \in Files THEN NumTasks + k
                                  ELSE NoEntry]
    /\ rebuilt' = [k \in Keys |-> IF k \in Files THEN inode[final[k]] ELSE -1]
    /\ lastUsed' = [e \in Entries |->
                       IF e > NumTasks /\ (e - NumTasks) \in Files
                       THEN mtime[e - NumTasks] ELSE 0]
    /\ totalSize' = SumFiles(Files)
    /\ pending' = pending + 1
    /\ UNCHANGED <<maxCacheSize, bodyLen, sequential, faults, clients, paths,
                   mtime, passes, cleanupMutex, call, ret, downloading, final, req, cl, originReqs>>

\* A cache directory left by an earlier run: each of the paths may have a
\* file of 1 to MaxBody bytes, last modified at 1 to MaxTime, and a '.tmp'
\* file of an unfinished download.  The file of key k is inode k, its '.tmp'
\* file inode NumKeys + k.
Directory(len, stray) ==
    /\ final = [k \in Keys |-> IF len[k] > 0 THEN k ELSE NoFile]
    /\ tmp = [k \in Keys |-> IF k \in stray THEN NumKeys + k ELSE NoFile]
    /\ inode = [i \in Inodes |->
                   IF i \in Keys /\ len[i] > 0 THEN len[i]
                   ELSE IF (i - NumKeys) \in stray THEN 0
                   ELSE -1]
    /\ \A k \in Keys : (len[k] > 0) <=> (mtime[k] > 0)

\* NewCache is about to run over such a directory, for any budget; then GETs
\* are sent one after the other.
InitRestart ==
    /\ TypeConfig
    /\ sequential = TRUE
    /\ clients = Restarted
    /\ paths = 2
    /\ Uniform(MaxBody)
    /\ faults = {}
    /\ started = FALSE
    /\ mtime \in [Keys -> 0..MaxTime]
    /\ \E len \in [Keys -> 0..MaxBody], stray \in SUBSET (1..paths) :
          /\ \A k \in Keys : k > paths => len[k] = 0
          /\ Directory(len, stray)
    /\ rebuilt = [k \in Keys |-> -1]
    /\ entries = [k \in Keys |-> NoEntry]
    /\ lastUsed = [e \in Entries |-> 0]
    /\ totalSize = 0
    /\ downloading = {}
    /\ req = [t \in Tasks |-> IdleReq]
    /\ pending = 0
    /\ cl = IdleCl
    /\ passes = [g \in Passes |-> IdleCl]
    /\ cleanupMutex = FALSE
    /\ originReqs = [k \in Keys |-> 0]
    /\ call = <<>>
    /\ ret = <<>>

ServeRestarted ==
    \E t \in Tasks :
        \/ \E k \in Keys : Lookup(t, k)
        \/ Register(t)
        \/ Fetch(t)
        \/ CreateTmp(t)
        \/ Copy(t)
        \/ Verify(t)
        \/ Store(t)
        \/ Add(t)
        \/ Return(t)
        \/ Open(t)
        \/ Stream(t)
        \/ Touch(t)

NextRestart == Rebuild \/ ServeRestarted \/ Cleanup

SpecRestart == InitRestart /\ [][NextRestart]_vars

\* GETs for the bytes from the second on, of one path.
RangedGets ==
    [method : {"GET"}, path : {1}, query : {""}, inm : {<<>>},
     range : {<<"bytes=", "1", "-">>}]

\* A burst of such GETs for a never-cached path of MaxBody bytes, with a
\* budget that holds it.
InitRangeBurst ==
    /\ TypeConfig
    /\ ~sequential
    /\ clients = NumTasks
    /\ paths = 1
    /\ maxCacheSize = MaxBudget
    /\ Uniform(MaxBody)
    /\ faults = {}
    /\ InitState

ServeRanged ==
    \E t \in Tasks :
        \/ \E r \in RangedGets : Request(t, r)
        \/ Register(t)
        \/ WaitPoll(t)
        \/ WaitDelete(t)
        \/ Fetch(t)
        \/ CreateTmp(t)
        \/ Copy(t)
        \/ Verify(t)
        \/ Fail(t)
        \/ Store(t)
        \/ Add(t)
        \/ Return(t)
        \/ Open(t)
        \/ Ranged(t)
        \/ Touch(t)

\* The burst up to the moment the first spawned cleanup goroutine is scheduled.
SpecRangeBurst == InitRangeBurst /\ [][ServeRanged]_vars

\* No request is being served and no cleanup goroutine is running or spawned.
Quiescent ==
    /\ \A t \in Tasks : req[t].pc \in {"idle", "done"}
    /\ pending = 0
    /\ cl.pc = "idle"

\* ------------------------------------------------------------- properties
\* The requests that are between registering a key in `downloading` and
\* returning from downloadFile as its owner.
Owning(t) ==
    /\ req[t].role = "owner"
    /\ req[t].pc \in {"get", "create", "copy", "verify", "rmtmp", "fail",
                      "store", "add", "ret"}

\* The owners whose entry has been stored in the Index.
Inserted(t) ==
    /\ req[t].role = "owner"
    /\ \/ req[t].pc \in {"add", "ret", "open", "stream", "touch"}
       \/ req[t].pc = "done" /\ req[t].err \in {"", "open", "stream", "disconnect"}

\* C1: concurrent GETs of one never-cached path, with an origin that always
\* answers 200 with the complete body, make the origin receive one fetch for
\* the path, and every response carries the origin's bytes.
C1_SingleFetch ==
    /\ \A k \in Keys : originReqs[k] <= 1
    /\ \A t \in Tasks :
          req[t].status = 200 /\ req[t].pc = "done" =>
              req[t].body = bodyLen[req[t].key]

\* C2: for each key at most one request is between registering the key and
\* returning from downloadFile as its owner.
C2_OneOwnerPerKey ==
    \A t, u \in Tasks :
        Owning(t) /\ Owning(u) /\ req[t].key = req[u].key => t = u

\* C3: with a sound origin, a GET that misses the Index is answered 200 with
\* the origin's body, and a GET that hits it is answered 200 with the same
\* bytes without a request to the origin.
C3_MissThenHit ==
    (sequential /\ faults = {}) =>
        \A t \in Tasks :
            req[t].pc = "done" =>
                /\ req[t].status = 200
                /\ req[t].body = bodyLen[req[t].key]
                /\ req[t].xcache = "HIT" => req[t].fetched = 0

\* C4: once every request and every triggered eviction pass has finished,
\* totalSize is at most the budget.
C4_WithinBudgetAtRest ==
    Quiescent => totalSize <= maxCacheSize

\* C5: bodies of one size s and a budget B with 2s <= B < 3s: after three
\* distinct paths were fetched one after the other and eviction has finished,
\* the first is out of the Index and the last two are in it.
C5_EvictsOldestOfThree ==
    ( /\ sequential
      /\ faults = {}
      /\ 2 * bodyLen[1] <= maxCacheSize
      /\ maxCacheSize < 3 * bodyLen[1]
      /\ Quiescent
      /\ \A t \in 1..3 : req[t].pc = "done"
      /\ \A t \in 4..NumTasks : req[t].pc = "idle"
      /\ Cardinality({req[t].key : t \in 1..3}) = 3 )
    => /\ entries[req[1].key] = NoEntry
       /\ entries[req[2].key] # NoEntry
       /\ entries[req[3].key] # NoEntry

\* C6: whenever no download and no eviction pass is in progress, totalSize is
\* the sum of the sizes of the entries in the Index.
C6_SizeIsSumOfIndex ==
    ( /\ \A t \in Tasks : req[t].pc \in {"idle", "done"}
      /\ pending = 0
      /\ cl.pc = "idle" )
    => totalSize = SumSizes(Indexed)

\* C7: a file under a final name holds the complete body of its path, and so
\* does the file of every entry in the Index.
C7_FinalFileComplete ==
    \A k \in Keys :
        /\ final[k] # NoFile => inode[final[k]] = bodyLen[k]
        /\ entries[k] # NoEntry /\ final[k] # NoFile =>
               inode[final[k]] = EntrySize(entries[k])

\* C8: an owner sends at most downloadRetries requests to the origin; when
\* the origin fails k < downloadRetries times and then delivers the body, the
\* GET is answered 200 with that body after k + 1 requests.
C8_RetryThenServe ==
    \A t \in Tasks :
        req[t].role = "owner" =>
            /\ req[t].fetched <= downloadRetries
            /\ ( /\ faults \subseteq {"origin"}
                 /\ req[t].pc = "done"
                 /\ req[t].err # "exhausted" )
               => /\ req[t].status = 200
                  /\ req[t].body = bodyLen[req[t].key]
                  /\ req[t].fetched = req[t].attempts + 1

\* The owners all of whose attempts have failed.
Exhausted(t) == req[t].role = "owner" /\ req[t].err = "exhausted"

\* No other request has been sent for the key of t.
Alone(t) == \A u \in Tasks \ {t} : req[u].key # req[t].key

\* C9: when all attempts of an owner fail, the GET is answered 500 after
\* downloadRetries requests to the origin, the owner has stored no entry and
\* added nothing to totalSize, and of a key nobody else has asked for there is
\* no entry, no file under the final name and no '.tmp' file.
C9_ExhaustedLeavesNothing ==
    \A t \in Tasks :
        Exhausted(t) =>
            /\ req[t].fetched = downloadRetries
            /\ req[t].attempts = downloadRetries
            /\ req[t].pc \in {"fail", "done"}
            /\ req[t].pc = "done" => req[t].status = 500 /\ req[t].body = -1
            /\ req[t].entry = NoEntry
            /\ \A k \in Keys : entries[k] # t
            /\ (\A u \in Tasks : ~Inserted(u)) => totalSize = 0
            /\ Alone(t) =>
                   /\ entries[req[t].key] = NoEntry
                   /\ final[req[t].key] = NoFile
                   /\ tmp[req[t].key] = NoFile

\* An owner has been answered 500 after three failed attempts while no other
\* request asked for its key and another key was fetched into the cache.
C9_Witness ==
    \E t, u \in Tasks :
        /\ Exhausted(t) /\ req[t].pc = "done" /\ Alone(t)
        /\ Inserted(u) /\ req[u].pc = "done"
        /\ totalSize > 0

C18_DisconnectKeepsLastUsed ==
    [][\A t \in Tasks :
          ( /\ req[t].pc = "touch"
            /\ req[t].err = "disconnect"
            /\ req'[t].pc = "done"
            /\ entries[EntryKey(req[t].entry)] = req[t].entry )
          => lastUsed'[req[t].entry] = lastUsed[req[t].entry]]_vars

\* C20: a key leaves `downloading` only in a step of an owner of that key
\* that ends its downloadFile; no step of a waiter removes it.
C20_OnlyOwnerRemovesMarker ==
    [][\A k \in Keys :
          (k \in downloading /\ k \notin downloading')
          => \E t \in Tasks :
                /\ req[t].role = "owner"
                /\ req[t].key = k
                /\ req[t].pc \in {"ret", "fail"}
                /\ req'[t].pc \in {"open", "done"}]_vars

\* A request arrives at goroutine t in this step.
Arrives(t) == req[t].pc = "idle" /\ req'[t].pc # "idle"

\* This step leaves the Index, totalSize, the registry, the cache directory,
\* every lastUsed and the origin alone.
CacheUntouched ==
    UNCHANGED <<entries, totalSize, downloading, final, tmp, inode, lastUsed,
                originReqs, pending>>

\* C11: a GET for a file path whose If-None-Match spells the digest of that
\* path, in whatever case, is answered 304 with no body in the step it
\* arrives, before the Index is read, and that step changes neither the
\* Index, totalSize, the registry, the files, any lastUsed nor the count of
\* origin requests.
C11_NotModifiedFirst ==
    [][\A t \in Tasks :
          ( /\ Arrives(t)
            /\ req'[t].http.method = "GET"
            /\ req'[t].http.path \notin ReservedPaths
            /\ req'[t].http.inm # <<>>
            /\ req'[t].http.inm[1] = req'[t].http.path )
          => /\ req'[t].pc = "done"
             /\ req'[t].status = 304
             /\ req'[t].body = -1
             /\ req'[t].xcache = ""
             /\ CacheUntouched]_vars

\* A 304 was given to a lower-case If-None-Match for a file that is cached.
C11_Witness ==
    \E t \in Tasks :
        /\ req[t].pc = "done"
        /\ req[t].status = 304
        /\ req[t].http.inm = <<req[t].http.path, "lower">>
        /\ entries[req[t].http.path] # NoEntry

\* C12: a request with a method other than GET is answered 405, and a GET
\* for "/" or "/favicon.ico" is answered 404, in the step it arrives, with no
\* key and no ETag computed and nothing of the cache or the origin touched,
\* whatever its path and its If-None-Match are.
C12_MethodThenReserved ==
    [][\A t \in Tasks :
          Arrives(t)
          => /\ req'[t].http.method # "GET"
                => /\ req'[t].pc = "done"
                   /\ req'[t].status = 405
                   /\ req'[t].key = 0
                   /\ req'[t].etag = <<>>
                   /\ CacheUntouched
             /\ (req'[t].http.method = "GET"
                 /\ req'[t].http.path \in ReservedPaths)
                => /\ req'[t].pc = "done"
                   /\ req'[t].status = 404
                   /\ req'[t].key = 0
                   /\ req'[t].etag = <<>>
                   /\ CacheUntouched]_vars

\* A POST for a reserved path got 405 and a GET for "/" whose If-None-Match
\* spells the digest of "/" got 404.
C12_Witness ==
    \E t, u \in Tasks :
        /\ req[t].status = 405
        /\ req[t].http.path \in ReservedPaths
        /\ req[t].http.inm # <<>>
        /\ req[u].status = 404
        /\ req[u].http.inm = <<RootPath, "upper">>

\* C17: two requests for the same path have the same cache file and the same
\* ETag, whatever their query strings, their headers and the time they
\* arrive; and the body a plain GET receives is the origin's body of its path.
C17_KeyFromPathOnly ==
    /\ \A t, u \in Tasks :
           (req[t].key # 0 /\ req[u].key # 0
            /\ req[t].http.path = req[u].http.path)
           => req[t].key = req[u].key /\ req[t].etag = req[u].etag
    /\ \A t \in Tasks :
           (req[t].status = 200 /\ req[t].pc = "done" /\ req[t].http.path > 0)
           => /\ req[t].body = bodyLen[req[t].http.path]
              /\ originReqs[req[t].http.path] > 0

\* Two requests for one path, with and without a query string and with
\* different headers, were both served; the second from the cache.
C17_Witness ==
    \E t, u \in Tasks :
        /\ t < u
        /\ req[t].status = 200 /\ req[t].pc = "done"
        /\ req[u].status = 206 /\ req[u].pc = "done"
        /\ req[t].http.path = req[u].http.path
        /\ req[t].http.query # req[u].http.query
        /\ req[t].http.inm # req[u].http.inm
        /\ req[u].xcache = "HIT"
        /\ req[t].key = req[u].key

AllDigits(d) == d # <<>> /\ \A i \in DOMAIN d : IsDigit(d[i])

Min(a, b) == IF a <= b THEN a ELSE b

\* The range the header s selects of a resource of `size` bytes, read off the
\* three forms 'bytes=F-L', 'bytes=F-' and 'bytes=-N' with F, L and N decimal
\* numbers; def is FALSE for the headers these forms say nothing about.
RefRange(s, size) ==
    LET rest == IF s = <<>> THEN <<>> ELSE Tail(s)
        hy   == {i \in DOMAIN rest : rest[i] = "-"}
        Bad  == [def |-> TRUE, ok |-> FALSE, start |-> 0, end |-> 0]
        Undef == [def |-> FALSE, ok |-> FALSE, start |-> 0, end |-> 0]
        Ok(a, b) == IF a >= size THEN Bad
                    ELSE [def |-> TRUE, ok |-> TRUE, start |-> a, end |-> b]
    IN IF s = <<>> \/ s[1] # "bytes=" THEN Bad
       ELSE IF hy = {} THEN Bad
       ELSE IF \E i \in DOMAIN rest : rest[i] = "," THEN Bad
       ELSE LET i == CHOOSE j \in hy : \A h \in hy : j <= h
                F == SubSeq(rest, 1, i - 1)
                L == SubSeq(rest, i + 1, Len(rest))
            IN IF F # <<>> /\ ~AllDigits(F) THEN Bad
               ELSE IF F = <<>>
               THEN IF AllDigits(L)
                    THEN Ok(size - Min(Decimal(L), size), size - 1)
                    ELSE Undef
               ELSE IF L = <<>> THEN Ok(Decimal(F), size - 1)
               ELSE IF AllDigits(L)
               THEN IF Decimal(F) > Decimal(L) THEN Bad
                    ELSE Ok(Decimal(F), Min(Decimal(L), size - 1))
               ELSE Undef

\* C13: on every header of the forms 'bytes=F-L', 'bytes=F-' and 'bytes=-N',
\* and on every header with another unit, without a hyphen or with a comma,
\* parseRange fails exactly when the reference fails and otherwise returns
\* the start and end of the reference; a failure is answered 416.
C13_ParseRangeAgrees ==
    (call # <<>> /\ ret # <<>> /\ call.fn = "parseRange")
    => LET e == RefRange(call.s, call.size)
       IN /\ e.def => /\ ret.range.err = ~e.ok
                       /\ e.ok => /\ ret.range.start = e.start
                                   /\ ret.range.end = e.end
          /\ ret.range.err => ret.status = 416

\* 'bytes=1-3' of a resource of three bytes was parsed: its end was brought
\* back to the last byte.
C13_Witness ==
    /\ call # <<>>
    /\ ret # <<>>
    /\ call.s = <<"bytes=", "1", "-", "3">>
    /\ call.size = 3
    /\ ret.range = [err |-> FALSE, start |-> 1, end |-> 2]

\* C14: a request whose client stayed to the end and that was answered 206
\* carries Content-Range 'bytes start-end/size' with 0 <= start <= end <=
\* size-1, Content-Length end-start+1 and a body of that many bytes; one
\* answered 200 carries the whole body of its path.
C14_RangeServed ==
    \A t \in Tasks :
        (req[t].pc = "done" /\ req[t].err = "")
        => /\ req[t].status = 206
              => /\ req[t].hdr[1] >= 0
                 /\ req[t].hdr[1] <= req[t].hdr[2]
                 /\ req[t].hdr[2] <= req[t].hdr[3] - 1
                 /\ req[t].hdr[3] = bodyLen[req[t].key]
                 /\ req[t].hdr[4] = req[t].hdr[2] - req[t].hdr[1] + 1
                 /\ req[t].body = req[t].hdr[4]
           /\ req[t].status = 200
              => req[t].body = bodyLen[req[t].key]

\* NewCache has returned, the cleanup pass it spawned has not started and no
\* request has arrived.
JustBuilt ==
    /\ started
    /\ pending = 1
    /\ cl = IdleCl
    /\ \A t \in Tasks : req[t].pc = "idle"

\* C15: when NewCache has returned and no cleanup pass has run, no '.tmp'
\* file is left, the Index holds an entry for a key exactly when a file
\* exists under its final name, that entry has the length of the file as its
\* size, the modification time of the file as its lastUsed and the name of
\* the file as its filename, and totalSize is the sum of the sizes of the
\* entries.
C15_RebuildIndexesFiles ==
    JustBuilt
    => /\ \A k \in Keys : tmp[k] = NoFile
       /\ \A k \in Keys : (entries[k] # NoEntry) <=> (final[k] # NoFile)
       /\ \A k \in Keys :
              final[k] # NoFile
              => /\ EntryKey(entries[k]) = k
                 /\ EntrySize(entries[k]) = inode[final[k]]
                 /\ lastUsed[entries[k]] = mtime[k]
       /\ totalSize = SumSizes(Indexed)
       /\ totalSize = SumFiles(Files)

\* NewCache has returned over a directory of two files of different lengths
\* and modification times.
C15_Witness ==
    /\ JustBuilt
    /\ Files = {1, 2}
    /\ inode[final[1]] # inode[final[2]]
    /\ mtime[1] # mtime[2]
    /\ totalSize = 3

\* The bytes of the files rebuildCache found.
FoundTotal ==
    LET acc[K \in SUBSET Keys] ==
            IF K = {} THEN 0
            ELSE LET k == CHOOSE x \in K : TRUE
                 IN Max(rebuilt[k], 0) + acc[K \ {k}]
    IN acc[Keys]

\* C16: after a restart over files that together are within the budget, and
\* as long as the origin has not been asked for anything, every file found
\* is still there and indexed, and every GET answered for one of them was a
\* HIT with status 200.
C16_RestartKeepsFiles ==
    (started /\ FoundTotal <= maxCacheSize
     /\ \A k \in Keys : originReqs[k] = 0)
    => /\ \A k \in Keys :
              rebuilt[k] >= 0 => final[k] # NoFile /\ entries[k] # NoEntry
       /\ \A t \in Tasks :
              (req[t].pc = "done" /\ rebuilt[req[t].key] >= 0)
              => req[t].xcache = "HIT" /\ req[t].status = 200

\* What the size string s stands for: ok with the number and the unit's
\* multiplier for a decimal number followed by MB or GB; an error for an
\* empty string, a missing number, a missing or unsupported unit, a
\* negative number and a value that is not a number; def is FALSE for -0.
RefSize(s) ==
    LET u    == ToUpper(TrimSpace(s))
        num  == TrimSpace(SubSeq(u, 1, Len(u) - 2))
        unit == SubSeq(u, Len(u) - 1, Len(u))
        Bad  == [def |-> TRUE, ok |-> FALSE, n |-> 0, by |-> 1]
    IN IF Len(u) < 2 \/ unit \notin {<<"M", "B">>, <<"G", "B">>} THEN Bad
       ELSE IF num = <<>> THEN Bad
       ELSE IF AllDigits(num)
       THEN [def |-> TRUE, ok |-> TRUE, n |-> Decimal(num),
             by |-> IF unit = <<"M", "B">> THEN 1024 * 1024
                    ELSE 1024 * 1024 * 1024]
       ELSE IF num[1] = "-" /\ AllDigits(Tail(num))
       THEN IF Decimal(Tail(num)) > 0 THEN Bad
            ELSE [def |-> FALSE, ok |-> FALSE, n |-> 0, by |-> 1]
       ELSE Bad

\* C19: ParseSize returns n times the multiplier of the unit, and no error,
\* for a decimal number n followed by MB or GB in any case with optional
\* white space around and between them; and returns 0 and an error for an
\* empty string, a missing number, a missing or unsupported unit, a negative
\* number and a value that is not a number.
C19_ParseSizeAgrees ==
    (call # <<>> /\ ret # <<>> /\ call.fn = "ParseSize")
    => LET e == RefSize(call.s)
       IN e.def => IF e.ok
                   THEN /\ ~ret.err
                        /\ ret.value = e.n
                        /\ ret.multiplier = e.by
                   ELSE /\ ret.err
                        /\ ret.value = 0

\* The owners that have returned from downloadFile.
Returned(t) ==
    /\ req[t].role = "owner"
    /\ req[t].pc \in {"open", "stream", "touch", "done"}

\* C21: a key is in `downloading` only while an owner of it is inside
\* downloadFile: once the owners of a key have returned, with an entry or
\* with an error, the key is not registered, so a request that registers
\* then becomes an owner and no request waits for a fetch nobody runs.
C21_MarkerNeverOutlivesOwner ==
    /\ \A k \in downloading : \E t \in Tasks : Owning(t) /\ req[t].key = k
    /\ \A t \in Tasks :
           (Returned(t) /\ ~\E u \in Tasks : Owning(u) /\ req[u].key = req[t].key)
           => req[t].key \notin downloading

\* An owner ran out of attempts and was answered 500; a request for the same
\* key that registered afterwards is an owner and has asked the origin again.
C21_Witness ==
    \E t, u \in Tasks :
        /\ req[t].pc = "done"
        /\ req[t].err = "exhausted"
        /\ req[t].fetched = downloadRetries
        /\ req[u].key = req[t].key
        /\ Owning(u)
        /\ req[u].fetched > 0
        /\ originReqs[req[t].key] > downloadRetries

\* Waiter t gives up in this step.
TimesOut(t) ==
    /\ req[t].pc = "wait"
    /\ req'[t].pc = "done"
    /\ req'[t].err = "timeout"

\* C22: the step in which a waiter gives up changes nothing but that
\* waiter: the registry, the Index, totalSize, the files and every other
\* request are as before; and with a sound origin an owner whose waiter has
\* given up goes on to store its entry in the Index.
C22_TimeoutHurtsWaiterOnly ==
    /\ [][\A t \in Tasks :
             TimesOut(t)
             => /\ UNCHANGED <<downloading, entries, totalSize, final, tmp,
                               inode, lastUsed, pending, cl, originReqs>>
                /\ \A u \in Tasks \ {t} : req'[u] = req[u]
                /\ req'[t].status = 500]_vars
    /\ \A t, u \in Tasks :
           (req[t].err = "timeout" /\ Owning(u) /\ req[u].key = req[t].key)
           ~> (Inserted(u) /\ req[u].pc = "done" /\ req[u].status = 200)

\* A waiter gave up, the owner it waited for was served its download, and a
\* request that came later was a HIT.
C22_Witness ==
    \E t, u, v \in Tasks :
        /\ req[t].pc = "done" /\ req[t].err = "timeout"
        /\ req[u].role = "owner" /\ req[u].pc = "done" /\ req[u].status = 200
        /\ req[u].body = bodyLen[req[u].key]
        /\ req[v].pc = "done" /\ req[v].xcache = "HIT" /\ req[v].status = 200
        /\ entries[req[t].key] # NoEntry

\* C23: every entry in the Index has a file under its final name, and the
\* file is as long as the entry's size says; also while an eviction pass is
\* running.  Stated for requests that come one after the other and a sound
\* origin, disk and client, where no two downloads share a file.
C23_IndexedEntryHasFile ==
    (sequential /\ faults = {}) =>
        \A k \in Keys :
            entries[k] # NoEntry =>
                /\ final[k] # NoFile
                /\ inode[final[k]] = EntrySize(entries[k])

\* C24: a GET whose own fetch succeeded (its owner stored the entry) is
\* answered 200 with the complete body, however the eviction passes,
\* including the one its insert triggered, interleave with it.  Stated for
\* requests that come one after the other and a sound origin, disk and
\* client.
C24_OwnerServedAfterFetch ==
    (sequential /\ faults = {}) =>
        \A t \in Tasks :
            (Inserted(t) /\ req[t].pc = "done") =>
                /\ req[t].err = ""
                /\ req[t].status = 200
                /\ req[t].body = bodyLen[req[t].key]

\* The snapshot of a pass is in ascending order of lastUsed, and the pass
\* goes through it from the front, one entry at a time.
OldestFirst ==
    /\ (cl.pc = "range" /\ cl'.pc = "remove") =>
           /\ cl'.i = 1
           /\ {cl'.snap[j] : j \in 1..Len(cl'.snap)} = Indexed
           /\ \A j, m \in 1..Len(cl'.snap) :
                  j < m => lastUsed[cl'.snap[j]] <= lastUsed[cl'.snap[m]]
    /\ (cl.pc = "sub" /\ cl'.pc = "remove") =>
           /\ cl'.i = cl.i + 1
           /\ cl'.snap = cl.snap

\* C25: a pass removes a prefix of its snapshot, which is sorted by
\* ascending lastUsed, so every entry it removes was used no later than
\* every snapshot entry it leaves; and an entry that was stored in the Index
\* after the snapshot was taken is not removed by that pass.
C25_RemovesOldestPrefix ==
    [][/\ OldestFirst
       /\ cl.pc = "delete" =>
              Indexed \ Indexed' \subseteq {cl.snap[j] : j \in 1..cl.i}]_vars

\* The state outside the eviction pass's own bookkeeping.
cache == <<entries, lastUsed, totalSize, downloading, final, tmp, inode>>

\* C26: a pass that finds totalSize < budget ends without changing
\* anything.  Otherwise it removes the entries of its snapshot one at a
\* time, each removal taking one file, one Index record and one size, and it
\* stops exactly after the first removal that leaves totalSize <= budget or
\* after the last entry of the snapshot.
C26_StopsAtBudget ==
    [][/\ cl.pc = "check" =>
              /\ cl'.pc \in {"check", IF totalSize < maxCacheSize
                                      THEN "unlock" ELSE "range"}
              /\ cl'.pc # "check" => UNCHANGED cache
       /\ (cl.pc \in {"range", "unlock"} /\ cl' # cl) => UNCHANGED cache
       /\ (cl.pc = "range" /\ cl'.pc = "unlock") => Indexed = {}
       /\ (cl.pc = "remove" /\ cl'.pc = "delete") =>
              /\ \A k \in Keys : final'[k] # final[k] =>
                     k = EntryKey(cl.snap[cl.i])
              /\ UNCHANGED <<entries, totalSize>>
       /\ (cl.pc = "delete" /\ cl'.pc = "sub") =>
              /\ \A k \in Keys : entries'[k] # entries[k] =>
                     k = EntryKey(cl.snap[cl.i]) /\ entries'[k] = NoEntry
              /\ UNCHANGED <<final, totalSize>>
       /\ (cl.pc = "sub" /\ cl' # cl) =>
              /\ totalSize' = totalSize - EntrySize(cl.snap[cl.i])
              /\ UNCHANGED <<entries, final>>
              /\ cl'.pc = "unlock" <=>
                     (totalSize' <= maxCacheSize \/ cl.i = Len(cl.snap))
              /\ cl'.pc # "unlock" => cl'.pc = "remove" /\ cl'.i = cl.i + 1
      ]_vars

\* A pass over a snapshot of two entries has removed the first, found
\* totalSize within the budget and stopped, leaving the second.
C26_Witness ==
    /\ cl.pc = "unlock"
    /\ cl.i = 1
    /\ Len(cl.snap) = 2
    /\ totalSize <= maxCacheSize
    /\ totalSize > 0
    /\ cl.snap[1] \notin Indexed
    /\ cl.snap[2] \in Indexed

\* C27: eviction removes no file and no Index record in a state where
\* totalSize is at most the budget; a cache whose totalSize equals the
\* budget loses no entry.  Stated for a cache whose totalSize is the sum of
\* the sizes in its Index.
C27_NoRemovalWithinBudget ==
    [][(/\ cl.pc \in {"remove", "delete"}
        /\ totalSize <= maxCacheSize
        /\ totalSize = SumSizes(Indexed))
       => UNCHANGED <<entries, final>>]_vars

\* The sum of the sizes of the first n entries of the snapshot s.
PrefixSize(s, n) == SumSizes({s[j] : j \in 1..n})

\* The entries that a pass with snapshot s removes when nothing else runs:
\* the shortest prefix whose removal leaves totalSize <= budget, or all of s.
Evicted(s) ==
    LET stops == {n \in 1..Len(s) :
                     totalSize - PrefixSize(s, n) <= maxCacheSize}
        last == IF stops = {} THEN Len(s)
                ELSE CHOOSE n \in stops : \A m \in stops : n <= m
    IN {s[j] : j \in 1..last}

\* C28: the entries a pass removes are fixed by the Index and the budget,
\* also when entries of the snapshot have the same lastUsed: every order in
\* which the pass may find its snapshot sorted makes it remove the same set.
C28_SameIndexSameRemovals ==
    [][(cl.pc = "range" /\ cl'.pc = "remove") =>
           \A s \in SortedEntries(Indexed) : Evicted(s) = Evicted(cl'.snap)]_vars

\* The goroutines that are inside a pass (past TryLock, before Unlock).
Active == {g \in Passes : passes[g].pc # "idle"}

\* Request t is inside ServeHTTP.
Serving(t) == req[t].pc \notin {"idle", "done"}

\* C29: at most one goroutine is inside an eviction pass, and it is the one
\* that holds the mutex; a goroutine that is spawned while a pass is active
\* ends at once and changes nothing; and a request that is inside ServeHTTP
\* can always take its next step, whether or not the mutex is held.
C29_OnePassNoWaiting ==
    [][/\ Cardinality(Active) <= 1
       /\ cleanupMutex <=> Active # {}
       /\ (pending' < pending /\ Active # {}) =>
              /\ passes' = passes
              /\ UNCHANGED cache
       /\ \A t \in Tasks : Serving(t) => ENABLED Step(t)
      ]_vars

\* Two requests have inserted their entries and spawned their goroutines,
\* every spawned goroutine has run TryLock, and one pass is active that has
\* both entries in its snapshot and has removed nothing yet: a goroutine
\* spawned by one of the inserts found the mutex held and ended at once.
C29_Witness ==
    /\ maxCacheSize = 0
    /\ pending = 0
    /\ cleanupMutex
    /\ \E g \in Passes :
          /\ passes[g].pc = "remove"
          /\ passes[g].i = 1
          /\ Len(passes[g].snap) = 2
    /\ Cardinality(Indexed) = 2
    /\ \A k \in 1..2 : final[k] # NoFile
    /\ \E t, u \in Tasks :
          /\ t # u
          /\ req[t].pc = "ret"
          /\ req[u].pc = "open"

\* The key of the entry the pass is at.
AtKey == EntryKey(cl.snap[cl.i])

C31_UnsatisfiableRangeIsFree ==
    \A t \in Tasks :
        (req[t].pc = "done" /\ req[t].status = 416) =>
            /\ req[t].fetched = 0
            /\ originReqs[req[t].key] = 0 \/ req[t].xcache = "HIT"
            /\ req[t].role # "owner"

\* os.Open fails for request t in this step.
OpenFails(t) ==
    /\ req[t].pc = "open"
    /\ req'[t].pc = "done"
    /\ req'[t].err = "open"

\* C32: the step in which os.Open fails answers the request 500 and leaves
\* the Index (the stale entry included), totalSize, the registry, the files
\* and the lastUsed of every indexed entry as they were; the request sends
\* nothing to the origin in it or after it.
C32_OpenFailureChangesNothing ==
    [][\A t \in Tasks :
           /\ OpenFails(t) =>
                  /\ req'[t].status = 500
                  /\ req'[t].fetched = req[t].fetched
                  /\ UNCHANGED <<entries, totalSize, downloading, final, tmp,
                                 originReqs, pending>>
                  /\ \A e \in Indexed : lastUsed'[e] = lastUsed[e]
           /\ (req[t].pc = "done" /\ req[t].err = "open") =>
                  req'[t] = req[t]
      ]_vars

\* A request found its key in the Index while a pass had removed the file
\* but not yet the record; it was answered 500 without a fetch, and the
\* stale entry is still in the Index.
C32_Witness ==
    \E t \in Tasks :
        /\ req[t].pc = "done"
        /\ req[t].err = "open"
        /\ req[t].status = 500
        /\ req[t].xcache = "HIT"
        /\ req[t].fetched = 0
        /\ entries[req[t].key] # NoEntry
        /\ final[req[t].key] = NoFile
        /\ originReqs[req[t].key] = 0

\* C33: no entry's lastUsed is about to be stored by a request while
\* another request is about to store it too, or while an eviction pass is
\* reading it for its sort; nothing in the code orders such accesses.
C33_LastUsedSynchronized ==
    \A e \in Entries :
        /\ Cardinality(Writers(e)) <= 1
        /\ ~(Writers(e) # {} /\ Sorting(e))

\* C34: totalSize is never negative, for every budget and every
\* interleaving of inserts with eviction passes.
C34_TotalSizeNonNegative == totalSize >= 0

====
